---- MODULE Spec2Model ----
(***************************************************************************)
(* open-share: one run of the program (main / inner_main) against the      *)
(* operating system's table of connected network resources.                *)
(*                                                                         *)
(* Strings are sequences of UTF-16 code units (all paths used here are     *)
(* ASCII, so a code unit is also a character); a wide C string is such a   *)
(* sequence followed by the terminator 0, and a null pointer is the empty  *)
(* sequence (no memory at all).  The remote names the OS hands out are     *)
(* well-formed, terminated wide strings.                                   *)
(***************************************************************************)
EXTENDS Integers, Sequences, FiniteSets, TLC

\* ------------------------------------------------------------------ bounds
\* Largest number of records in the OS connection table.
MaxRecords == 2
\* Largest number of records the OS puts into one page (one WNetEnumResourceW).
MaxPage == 2
\* Largest number of successful page fetches that carry no record at all.
MaxEmptyPages == 1

\* ------------------------------------------------------- program constants
NO_ERROR == 0
ERROR_NO_MORE_ITEMS == 259
\* open_path's threshold on the value ShellExecuteW returns.
LaunchThreshold == 32
\* Exit status of a Rust process that panics.
PanicStatus == 101

\* Statuses other than NO_ERROR that WNetOpenEnumW can give
\* (ERROR_NO_NETWORK, ERROR_NO_MORE_ITEMS).
OpenEnumFailures == {1222, ERROR_NO_MORE_ITEMS}
\* Statuses other than NO_ERROR and ERROR_NO_MORE_ITEMS that
\* WNetEnumResourceW can give (ERROR_NO_NETWORK).
EnumResourceFailures == {1222}
\* Statuses WNetCloseEnum can give.
CloseEnumStatuses == {NO_ERROR, 6}
\* Statuses WNetAddConnection2W can give (success, and ERROR_CANCELLED when
\* the user dismisses the credential prompt).
AddConnectionStatuses == {NO_ERROR, 1223}
\* Values ShellExecuteW can give, as the pointer-sized unsigned integer
\* open_path compares: both sides of the threshold and a handle.
ShellExecuteReturns == {32, 33, 4194304}

\* ------------------------------------------------------------------ inputs
NULL == << >>

\*  \\s\d
UncLower == <<92, 92, 115, 92, 100>>
\*  \\S\D
UncUpper == <<92, 92, 83, 92, 68>>
\*  \\s\d\
UncTrailing == <<92, 92, 115, 92, 100, 92>>
\*  //s/d
UncSlashes == <<47, 47, 115, 47, 100>>
\*  Z:
DriveLetter == <<90, 58>>

Paths == {UncLower, UncUpper, UncTrailing, UncSlashes, DriveLetter}
\*  al, Bo
Usernames == {<<97, 108>>, <<66, 111>>}
\*  o.exe
ProgramName == <<111, 46, 101, 120, 101>>
\*  x
ExtraArg == <<120>>

\* The argument vectors of a run: env::args() with 0 to 4 elements.
ArgVectors ==
    { SubSeq(<<ProgramName, p, u, ExtraArg>>, 1, n) :
        p \in Paths, u \in Usernames, n \in 0..4 }

\* ----------------------------------------------------------- string helpers
\* str_to_wcstring: the UTF-16 code units of s followed by the terminator.
str_to_wcstring(s) == Append(s, 0)

\* Index of the first terminator at or after position i of the memory mem.
RECURSIVE FirstNul(_, _)
FirstNul(mem, i) ==
    IF i > Len(mem) THEN i
    ELSE IF mem[i] = 0 THEN i
    ELSE FirstNul(mem, i + 1)

\* wcstr_to_string: the code units before the first terminator.
wcstr_to_string(ptr) == SubSeq(ptr, 1, FirstNul(ptr, 1) - 1)

\* A comparison that keeps the case: the unit is left as it is.
to_lowercase_unit_KeepCase(c) == c

\* char::to_lowercase on one ASCII code unit.
to_lowercase_unit(c) == IF c >= 65 /\ c <= 90 THEN c + 32 ELSE c

\* str::to_lowercase.
to_lowercase(s) == [i \in 1..Len(s) |-> to_lowercase_unit(s[i])]

\* One record of the OS table as WNetEnumResourceW returns it.
NetResource(remote) == [lpRemoteName |-> remote]

RemoteNames == {NULL} \cup {str_to_wcstring(p) : p \in Paths}

RECURSIVE SeqsUpTo(_, _)
SeqsUpTo(S, n) ==
    IF n = 0 THEN {<< >>}
    ELSE LET shorter == SeqsUpTo(S, n - 1)
         IN  shorter \cup {Append(q, x) : q \in {r \in shorter : Len(r) = n - 1}, x \in S}

ConnectionTables == SeqsUpTo({NetResource(r) : r \in RemoteNames}, MaxRecords)

\* ------------------------------------------------------------------- state
VARIABLES
    args,             \* env::args() of the run
    table,            \* the OS connection table (connected disk resources)
    pc,               \* position of the run in main / inner_main
    enum_handle,      \* "null", "open" or "closed"
    pos,              \* number of table records the enumeration has returned
    empty_pages,      \* successful page fetches that carried no record
    found,            \* is_connection_already_open's found flag
    check_result,     \* what is_connection_already_open returned: "none" until
                      \* it returns, then "true" or "false"
    tested,           \* the paths printed by "testing against path"
    calls,            \* every OS call made so far, in order, with its status
    connect_requests, \* the arguments of every WNetAddConnection2W call
    exit_code,        \* inner_main's return value, -1 while it has not returned
    stdin_reads,      \* read_line calls made by main
    process_status    \* the status the process ended with, -1 while running

vars == <<args, table, pc, enum_handle, pos, empty_pages, found, check_result,
          tested, calls, connect_requests, exit_code, stdin_reads, process_status>>

Call(op, status) == [op |-> op, status |-> status]

\* inner_main's path and username (only read when args has three elements).
path == args[2]
username == args[3]

Init ==
    /\ args \in ArgVectors
    /\ table \in ConnectionTables
    /\ pc = "inner_main"
    /\ enum_handle = "null"
    /\ pos = 0
    /\ empty_pages = 0
    /\ found = FALSE
    /\ check_result = "none"
    /\ tested = << >>
    /\ calls = << >>
    /\ connect_requests = << >>
    /\ exit_code = -1
    /\ stdin_reads = 0
    /\ process_status = -1

\* ----------------------------------------------------------------- actions
\* An argument check that only asks for enough arguments.
ArgsAccepted_AtLeast(a) == Len(a) >= 3

\* inner_main's argument check.
ArgsAccepted(a) == Len(a) = 3

CheckArgs ==
    /\ pc = "inner_main"
    /\ IF ArgsAccepted(args)
       THEN /\ pc' = "open_enum"
            /\ UNCHANGED exit_code
       ELSE /\ pc' = "main"
            /\ exit_code' = 1
    /\ UNCHANGED <<args, table, enum_handle, pos, empty_pages, found,
                   check_result, tested, calls, connect_requests, stdin_reads,
                   process_status>>

\* inner_main going straight to the launch whatever the check said.
AfterCheck_NeverConnect(already_open) == "launch"

\* inner_main's use of is_connection_already_open's result: connect only
\* when the check said the share is not open yet.
AfterCheck(already_open) == IF already_open THEN "launch" ELSE "connect"

BoolName(b) == IF b THEN "true" ELSE "false"

\* is_connection_already_open: WNetOpenEnumW and the test of its status.
OpenEnumSucceeded(status) == status = NO_ERROR

OpenEnum ==
    /\ pc = "open_enum"
    /\ \E status \in {NO_ERROR} \cup OpenEnumFailures :
        /\ calls' = Append(calls, Call("WNetOpenEnumW", status))
        /\ IF OpenEnumSucceeded(status)
           THEN /\ enum_handle' = "open"
                /\ pc' = "enum_loop"
                /\ UNCHANGED check_result
           ELSE /\ check_result' = BoolName(FALSE)
                /\ pc' = AfterCheck(FALSE)
                /\ UNCHANGED enum_handle
    /\ UNCHANGED <<args, table, pos, empty_pages, found, tested,
                   connect_requests, exit_code, stdin_reads, process_status>>

\* A comparison that drops one trailing backslash from both paths first.
TrimSeparator(s) ==
    IF Len(s) > 0 /\ s[Len(s)] = 92 THEN SubSeq(s, 1, Len(s) - 1) ELSE s

RECURSIVE ScanPage_TrimSeparator(_, _, _, _, _)
ScanPage_TrimSeparator(structs, i, path_lower, found_in, tested_in) ==
    IF i > Len(structs)
    THEN [found |-> found_in, tested |-> tested_in]
    ELSE IF structs[i].lpRemoteName = NULL
    THEN ScanPage_TrimSeparator(structs, i + 1, path_lower, found_in, tested_in)
    ELSE LET remote_path_lower ==
                 to_lowercase(wcstr_to_string(structs[i].lpRemoteName))
         IN  IF TrimSeparator(remote_path_lower) = TrimSeparator(path_lower)
             THEN [found |-> TRUE, tested |-> Append(tested_in, remote_path_lower)]
             ELSE ScanPage_TrimSeparator(structs, i + 1, path_lower, found_in,
                                         Append(tested_in, remote_path_lower))

\* A for loop that ends at the first null name instead of passing over it.
RECURSIVE ScanPage_NullStops(_, _, _, _, _)
ScanPage_NullStops(structs, i, path_lower, found_in, tested_in) ==
    IF i > Len(structs)
    THEN [found |-> found_in, tested |-> tested_in]
    ELSE IF structs[i].lpRemoteName = NULL
    THEN [found |-> found_in, tested |-> tested_in]
    ELSE LET remote_path_lower ==
                 to_lowercase(wcstr_to_string(structs[i].lpRemoteName))
         IN  IF remote_path_lower = path_lower
             THEN [found |-> TRUE, tested |-> Append(tested_in, remote_path_lower)]
             ELSE ScanPage_NullStops(structs, i + 1, path_lower, found_in,
                                     Append(tested_in, remote_path_lower))

\* A for loop whose found flag starts afresh on every page.
RECURSIVE ScanPage_FreshFlag(_, _, _, _, _)
ScanPage_FreshFlag(structs, i, path_lower, found_in, tested_in) ==
    IF i > Len(structs)
    THEN [found |-> FALSE, tested |-> tested_in]
    ELSE IF structs[i].lpRemoteName = NULL
    THEN ScanPage_FreshFlag(structs, i + 1, path_lower, found_in, tested_in)
    ELSE LET remote_path_lower ==
                 to_lowercase(wcstr_to_string(structs[i].lpRemoteName))
         IN  IF remote_path_lower = path_lower
             THEN [found |-> TRUE, tested |-> Append(tested_in, remote_path_lower)]
             ELSE ScanPage_FreshFlag(structs, i + 1, path_lower, found_in,
                                     Append(tested_in, remote_path_lower))

\* The for loop over one page: null names are skipped, every other name is
\* lowercased, printed and compared; the first equal name sets found and
\* ends the for loop.  The result is the found flag and the printed paths
\* after the page.
RECURSIVE ScanPage(_, _, _, _, _)
ScanPage(structs, i, path_lower, found_in, tested_in) ==
    IF i > Len(structs)
    THEN [found |-> found_in, tested |-> tested_in]
    ELSE IF structs[i].lpRemoteName = NULL
    THEN ScanPage(structs, i + 1, path_lower, found_in, tested_in)
    ELSE LET remote_path_lower ==
                 to_lowercase(wcstr_to_string(structs[i].lpRemoteName))
         IN  IF remote_path_lower = path_lower
             THEN [found |-> TRUE, tested |-> Append(tested_in, remote_path_lower)]
             ELSE ScanPage(structs, i + 1, path_lower, found_in,
                           Append(tested_in, remote_path_lower))

\* A loop that treats every status but NO_ERROR as the end of the table.
FetchBranch_ErrorEndsLoop(status) ==
    IF status # NO_ERROR THEN "break" ELSE "page"

\* A loop without the no-more-items break: that status counts as a page.
FetchBranch_NoEndOfTable(status) ==
    IF status # NO_ERROR /\ status # ERROR_NO_MORE_ITEMS THEN "fail" ELSE "page"

\* The branch the loop takes on WNetEnumResourceW's status.
FetchBranch(status) ==
    IF status = ERROR_NO_MORE_ITEMS THEN "break"
    ELSE IF status # NO_ERROR THEN "fail"
    ELSE "page"

\* A failure branch that returns without releasing the handle.
CallsAfterFetchFailure_NoClose(fetched, closed) == fetched

\* The failure branch's OS calls: the failed fetch, then WNetCloseEnum, whose
\* status is dropped.
CallsAfterFetchFailure(fetched, closed) ==
    Append(fetched, Call("WNetCloseEnum", closed))

\* A loop that a match ends: the break leaves the fetch loop too.
AfterPage_MatchEndsLoop(found_now) ==
    IF found_now THEN "close_enum" ELSE "enum_loop"

\* Where the run is after a page has been scanned: the break on a match
\* leaves the for loop only, so the fetch loop goes on whatever was found.
AfterPage(found_now) == "enum_loop"

\* What the OS can answer to the next WNetEnumResourceW: the end of the
\* table once every record has been returned, an error at any time, or a
\* page holding the next count records.
FetchAnswers ==
    LET remaining == Len(table) - pos
        most == IF remaining < MaxPage THEN remaining ELSE MaxPage
    IN  {[status |-> s, count |-> 0] : s \in EnumResourceFailures}
        \cup (IF remaining = 0
              THEN {[status |-> ERROR_NO_MORE_ITEMS, count |-> 0]} ELSE {})
        \cup {[status |-> NO_ERROR, count |-> k] : k \in 1..most}
        \cup (IF empty_pages < MaxEmptyPages
              THEN {[status |-> NO_ERROR, count |-> 0]} ELSE {})

\* One iteration of is_connection_already_open's loop.
EnumResource ==
    /\ pc = "enum_loop"
    /\ \E answer \in FetchAnswers :
        LET fetched == Append(calls, Call("WNetEnumResourceW", answer.status))
            branch == FetchBranch(answer.status)
        IN  IF branch = "break"
            THEN /\ calls' = fetched
                 /\ pc' = "close_enum"
                 /\ UNCHANGED <<enum_handle, pos, empty_pages, found,
                                check_result, tested>>
            ELSE IF branch = "fail"
            THEN /\ \E closed \in CloseEnumStatuses :
                        calls' = CallsAfterFetchFailure(fetched, closed)
                 /\ enum_handle' = "closed"
                 /\ check_result' = BoolName(FALSE)
                 /\ pc' = AfterCheck(FALSE)
                 /\ UNCHANGED <<pos, empty_pages, found, tested>>
            ELSE LET structs == SubSeq(table, pos + 1, pos + answer.count)
                     scan == ScanPage(structs, 1, to_lowercase(path), found, tested)
                 IN  /\ calls' = fetched
                     /\ pos' = pos + answer.count
                     /\ empty_pages' =
                            IF answer.count = 0 THEN empty_pages + 1 ELSE empty_pages
                     /\ found' = scan.found
                     /\ tested' = scan.tested
                     /\ pc' = AfterPage(scan.found)
                     /\ UNCHANGED <<enum_handle, check_result>>
    /\ UNCHANGED <<args, table, connect_requests, exit_code, stdin_reads,
                   process_status>>

\* The end of is_connection_already_open after the loop: WNetCloseEnum,
\* whose status is only reported, and the return of found.
CloseEnum ==
    /\ pc = "close_enum"
    /\ \E status \in CloseEnumStatuses :
        calls' = Append(calls, Call("WNetCloseEnum", status))
    /\ enum_handle' = "closed"
    /\ check_result' = BoolName(found)
    /\ pc' = AfterCheck(found)
    /\ UNCHANGED <<args, table, pos, empty_pages, found, tested,
                   connect_requests, exit_code, stdin_reads, process_status>>

\* A request for a connection that is remembered across logons: the
\* temporary flag is left out.
ConnectRequest_Persistent(p, u) ==
    [dwType |-> "RESOURCETYPE_DISK",
     lpLocalName |-> NULL,
     lpRemoteName |-> str_to_wcstring(p),
     lpProvider |-> NULL,
     password |-> "None",
     username |-> str_to_wcstring(u),
     flags |-> {"CONNECT_INTERACTIVE", "CONNECT_PROMPT"}]

\* connect_to_share's request: the NETRESOURCEW, the password, the user name
\* and the flags it hands to WNetAddConnection2W.
ConnectRequest(p, u) ==
    [dwType |-> "RESOURCETYPE_DISK",
     lpLocalName |-> NULL,
     lpRemoteName |-> str_to_wcstring(p),
     lpProvider |-> NULL,
     password |-> "None",
     username |-> str_to_wcstring(u),
     flags |-> {"CONNECT_INTERACTIVE", "CONNECT_PROMPT", "CONNECT_TEMPORARY"}]

\* connect_to_share ignoring the status of WNetAddConnection2W.
ConnectSucceeded_IgnoreStatus(status) == TRUE

\* connect_to_share's test of WNetAddConnection2W's status.
ConnectSucceeded(status) == status = NO_ERROR

\* inner_main checking the table again after a connect.
AfterConnect_CheckAgain(connected) == IF connected THEN "open_enum" ELSE "main"

\* inner_main after connect_to_share: on to the launch, or return 1.
AfterConnect(connected) == IF connected THEN "launch" ELSE "main"

\* connect_to_share, and inner_main's return of 1 when it fails.
Connect ==
    /\ pc = "connect"
    /\ connect_requests' = Append(connect_requests, ConnectRequest(path, username))
    /\ \E status \in AddConnectionStatuses :
        /\ calls' = Append(calls, Call("WNetAddConnection2W", status))
        /\ pc' = AfterConnect(ConnectSucceeded(status))
        /\ IF ConnectSucceeded(status)
           THEN UNCHANGED exit_code
           ELSE exit_code' = 1
    /\ UNCHANGED <<args, table, enum_handle, pos, empty_pages, found,
                   check_result, tested, stdin_reads, process_status>>

\* A test that lets the threshold itself through.
LaunchSucceeded_ThresholdPasses(result_int) == ~(result_int < LaunchThreshold)

\* open_path's test of the value ShellExecuteW returned.
LaunchSucceeded(result_int) == ~(result_int <= LaunchThreshold)

\* inner_main returning 0 whatever open_path said.
ExitCodeOf_AlwaysZero(result) == 0

\* inner_main's exit code from open_path's result.
ExitCodeOf(result) == IF result THEN 0 ELSE 1

\* open_path, and inner_main's final expression.
Launch ==
    /\ pc = "launch"
    /\ \E result_int \in ShellExecuteReturns :
        /\ calls' = Append(calls, Call("ShellExecuteW", result_int))
        /\ exit_code' = ExitCodeOf(LaunchSucceeded(result_int))
    /\ pc' = "main"
    /\ UNCHANGED <<args, table, enum_handle, pos, empty_pages, found,
                   check_result, tested, connect_requests, stdin_reads,
                   process_status>>

\* A main that pauses before every exit.
MustPause_Always(code) == TRUE

\* main's test for the pause.
MustPause(code) == code # 0

\* main after inner_main has returned: on a non-zero exit code one
\* read_line, which yields a line, end of input, or an error that makes
\* expect panic.
Main ==
    /\ pc = "main"
    /\ IF MustPause(exit_code)
       THEN /\ stdin_reads' = stdin_reads + 1
            /\ \E outcome \in {"line", "eof", "error"} :
                IF outcome = "error"
                THEN /\ pc' = "exited"
                     /\ process_status' = PanicStatus
                ELSE /\ pc' = "exit"
                     /\ UNCHANGED process_status
       ELSE /\ pc' = "exit"
            /\ UNCHANGED <<stdin_reads, process_status>>
    /\ UNCHANGED <<args, table, enum_handle, pos, empty_pages, found,
                   check_result, tested, calls, connect_requests, exit_code>>

\* process::exit(exit_code).
ProcessExit ==
    /\ pc = "exit"
    /\ pc' = "exited"
    /\ process_status' = exit_code
    /\ UNCHANGED <<args, table, enum_handle, pos, empty_pages, found,
                   check_result, tested, calls, connect_requests, exit_code,
                   stdin_reads>>

Next ==
    \/ CheckArgs
    \/ OpenEnum
    \/ EnumResource
    \/ CloseEnum
    \/ Connect
    \/ Launch
    \/ Main
    \/ ProcessExit

Spec == Init /\ [][Next]_vars

\* The run as the single thread executes it: every OS call and every
\* read_line returns, so a step that can be taken is taken.
FairSpec == Spec /\ WF_vars(Next)

\* -------------------------------------------------------------- properties
CallsOf(op) == {i \in DOMAIN calls : calls[i].op = op}

Called(op) == CallsOf(op) # {}

\* Some call of op got a status other than NO_ERROR.
CallFailed(op) == \E i \in CallsOf(op) : calls[i].status # 0

\* Some call of op got the status NO_ERROR.
CallSucceeded(op) == \E i \in CallsOf(op) : calls[i].status = 0

\* The run got past the argument check: it has a path and a user name.
HasTarget == Len(args) = 3

\* inner_main has returned.
Returned == exit_code # -1

\* Two code units that are the same ASCII letter or the same unit.
SameLetter(a, b) ==
    \/ a = b
    \/ a \in 65..90 /\ b = a + 32
    \/ b \in 65..90 /\ a = b + 32

\* Equality of two strings up to the case of their letters.
CaseInsensitiveEqual(s, t) ==
    /\ Len(s) = Len(t)
    /\ \A i \in 1..Len(s) : SameLetter(s[i], t[i])

\* Record i of the OS table names the target path, case-insensitively.
RecordMatches(i) ==
    /\ table[i].lpRemoteName # NULL
    /\ CaseInsensitiveEqual(
           SubSeq(table[i].lpRemoteName, 1, Len(table[i].lpRemoteName) - 1), path)

TableHasMatch == \E i \in DOMAIN table : RecordMatches(i)

\* An enumeration call of the run failed: WNetOpenEnumW did not succeed, or
\* a WNetEnumResourceW gave something else than success or no-more-items.
EnumerationFailed ==
    \/ CallFailed("WNetOpenEnumW")
    \/ \E i \in CallsOf("WNetEnumResourceW") : calls[i].status \notin {0, 259}

\* C1 as stated: when the OS table holds a record equal to the target path
\* up to case, the run never calls WNetAddConnection2W, whatever the
\* enumeration calls return.
C1_NoConnectWhateverStatuses ==
    (HasTarget /\ TableHasMatch) => ~Called("WNetAddConnection2W")

\* C1 amended: when the OS table holds a record equal to the target path up
\* to case and no enumeration call of the run has failed, the run has not
\* called WNetAddConnection2W.
C1_NoConnectWhenPresent ==
    (HasTarget /\ TableHasMatch /\ ~EnumerationFailed)
        => ~Called("WNetAddConnection2W")

\* A finished run over a table holding the target in another case, with a
\* clean enumeration, that launched without connecting.
C1_Witness ==
    /\ pc = "exited"
    /\ HasTarget
    /\ TableHasMatch
    /\ \E i \in DOMAIN table : RecordMatches(i) /\ table[i].lpRemoteName # Append(path, 0)
    /\ ~EnumerationFailed
    /\ Called("WNetEnumResourceW")
    /\ Called("ShellExecuteW")
    /\ ~Called("WNetAddConnection2W")

\* C2: when no record of the OS table matches the target path, a run with
\* two arguments calls WNetAddConnection2W exactly once by the time
\* inner_main returns, never more than once, and every ShellExecuteW call
\* comes after that call in the order of the run's OS calls.
C2_ConnectOnceBeforeLaunch ==
    (HasTarget /\ ~TableHasMatch) =>
        /\ Cardinality(CallsOf("WNetAddConnection2W")) <= 1
        /\ Returned => Cardinality(CallsOf("WNetAddConnection2W")) = 1
        /\ pc = "launch" => Called("WNetAddConnection2W")
        /\ \A l \in CallsOf("ShellExecuteW") :
               \E c \in CallsOf("WNetAddConnection2W") : c < l

\* A finished run over a non-empty table without the target: one connect,
\* then the launch.
C2_Witness ==
    /\ pc = "exited"
    /\ HasTarget
    /\ table # << >>
    /\ ~TableHasMatch
    /\ check_result = "false"
    /\ ~EnumerationFailed
    /\ Called("ShellExecuteW")
    /\ Cardinality(CallsOf("WNetAddConnection2W")) = 1

\* C3: once WNetAddConnection2W has returned a status other than NO_ERROR,
\* ShellExecuteW is never called, inner_main has returned 1, and the process
\* ends with status 1 unless the pause's read_line fails.
C3_ConnectFailureEndsRun ==
    CallFailed("WNetAddConnection2W") =>
        /\ ~Called("ShellExecuteW")
        /\ exit_code = 1
        /\ pc \in {"main", "exit", "exited"}
        /\ process_status \in {-1, 1, 101}
        /\ (pc = "exited" /\ process_status # 101) => process_status = 1

\* A finished run whose connect call failed.
C3_Witness ==
    /\ pc = "exited"
    /\ CallFailed("WNetAddConnection2W")
    /\ process_status = 1

\* C4: the value inner_main returns is 0 or 1; it is 0 exactly when (the
\* check returned true or WNetAddConnection2W succeeded) and ShellExecuteW
\* returned more than 32; and with an argument count other than two it is 1
\* and no OS call has been made at any point of the run.
C4_ExitCode ==
    /\ Returned =>
        /\ exit_code \in {0, 1}
        /\ exit_code = 0 <=>
              /\ check_result = "true" \/ CallSucceeded("WNetAddConnection2W")
              /\ \E l \in CallsOf("ShellExecuteW") : calls[l].status > 32
    /\ ~HasTarget =>
        /\ calls = << >>
        /\ connect_requests = << >>
        /\ pc # "inner_main" => exit_code = 1

\* A run with three arguments that has returned 1 without any OS call.
C4_Witness ==
    /\ Len(args) = 4
    /\ pc = "exited"
    /\ exit_code = 1
    /\ calls = << >>

\* C5: once an enumeration call has failed, is_connection_already_open has
\* returned false, the run is at the connect step or has made the connect
\* call (inner_main has not returned without it), and when the failing call
\* is the first page fetch no record has been compared.
C5_FailOpen ==
    EnumerationFailed =>
        /\ check_result = "false"
        /\ pc = "connect" \/ Called("WNetAddConnection2W")
        /\ Returned => Called("WNetAddConnection2W")
        /\ (Len(calls) >= 2 /\ calls[2].op = "WNetEnumResourceW"
              /\ calls[2].status \notin {0, 259}) => tested = << >>

\* A run over a table holding the target whose first page fetch failed and
\* which then made the connect call.
C5_Witness ==
    /\ HasTarget
    /\ TableHasMatch
    /\ Len(calls) >= 2
    /\ calls[2].op = "WNetEnumResourceW"
    /\ calls[2].status \notin {0, 259}
    /\ tested = << >>
    /\ Called("WNetAddConnection2W")

\* C6: WNetCloseEnum is never called more than once and never without a
\* successful WNetOpenEnumW before it; once is_connection_already_open has
\* returned it has been called exactly once if the handle was opened (the
\* loop ended by no-more-items or by a failed fetch) and not at all if
\* WNetOpenEnumW failed.
C6_HandleReleasedOnce ==
    /\ Cardinality(CallsOf("WNetCloseEnum")) <= 1
    /\ \A c \in CallsOf("WNetCloseEnum") :
           \E o \in CallsOf("WNetOpenEnumW") : o < c /\ calls[o].status = 0
    /\ check_result # "none" =>
           Cardinality(CallsOf("WNetCloseEnum")) =
               (IF CallSucceeded("WNetOpenEnumW") THEN 1 ELSE 0)
    /\ enum_handle = "closed" <=> Called("WNetCloseEnum")

\* The check has returned after a failed page fetch, with the handle
\* released once.
C6_Witness ==
    /\ check_result = "false"
    /\ CallSucceeded("WNetOpenEnumW")
    /\ \E i \in CallsOf("WNetEnumResourceW") : calls[i].status \notin {0, 259}
    /\ Cardinality(CallsOf("WNetCloseEnum")) = 1
    /\ enum_handle = "closed"

\* C7: in a run WNetAddConnection2W, ShellExecuteW, WNetOpenEnumW and
\* WNetCloseEnum are each called at most once, no call follows a failed call
\* of the same operation, and no enumeration call follows the connect call.
C7_EachCallOnce ==
    /\ \A op \in {"WNetAddConnection2W", "ShellExecuteW", "WNetOpenEnumW",
                  "WNetCloseEnum"} : Cardinality(CallsOf(op)) <= 1
    /\ Len(connect_requests) = Cardinality(CallsOf("WNetAddConnection2W"))
    /\ \A i, j \in DOMAIN calls :
           (i < j /\ calls[i].op = calls[j].op) =>
               /\ calls[i].op = "WNetEnumResourceW"
               /\ calls[i].status = 0
    /\ \A c \in CallsOf("WNetAddConnection2W") :
           \A e \in DOMAIN calls :
               e > c => calls[e].op \notin {"WNetOpenEnumW", "WNetEnumResourceW",
                                            "WNetCloseEnum"}

\* A finished run that connected after a failed enumeration and launched.
C7_Witness ==
    /\ pc = "exited"
    /\ EnumerationFailed
    /\ CallSucceeded("WNetAddConnection2W")
    /\ Called("ShellExecuteW")
    /\ Cardinality(CallsOf("WNetEnumResourceW")) >= 2

\* C8: once the check has returned true or WNetAddConnection2W has
\* succeeded, the run is at the launch step or has called ShellExecuteW;
\* when inner_main has returned it has called it exactly once and returned 0
\* exactly when that call gave more than 32.
C8_LaunchDecidesResult ==
    (check_result = "true" \/ CallSucceeded("WNetAddConnection2W")) =>
        /\ pc = "launch" \/ Called("ShellExecuteW")
        /\ Cardinality(CallsOf("ShellExecuteW")) <= 1
        /\ Returned =>
            /\ Cardinality(CallsOf("ShellExecuteW")) = 1
            /\ \A l \in CallsOf("ShellExecuteW") :
                   exit_code = (IF calls[l].status > 32 THEN 0 ELSE 1)

\* A finished run that found the share connected and whose launch failed.
C8_Witness ==
    /\ pc = "exited"
    /\ check_result = "true"
    /\ ~Called("WNetAddConnection2W")
    /\ \E l \in CallsOf("ShellExecuteW") : calls[l].status <= 32
    /\ exit_code = 1

\* C9: whatever else happened in the run, a ShellExecuteW value of 32 or
\* less makes open_path fail (inner_main returns 1) and a value above 32
\* makes it succeed (inner_main returns 0).
C9_LaunchThreshold ==
    \A l \in CallsOf("ShellExecuteW") :
        /\ calls[l].status <= 32 => exit_code = 1
        /\ calls[l].status >= 33 => exit_code = 0

\* ShellExecuteW gave exactly 32 and the launch counted as failed.
C9_Witness ==
    /\ \E l \in CallsOf("ShellExecuteW") : calls[l].status = 32
    /\ exit_code = 1
    /\ CallSucceeded("WNetAddConnection2W")

\* lowercase, forward slashes turned into backslashes, one trailing
\* backslash dropped: the spellings a path comparison could identify.
Canonical(s) ==
    LET low == [i \in 1..Len(s) |->
                   IF s[i] \in 65..90 THEN s[i] + 32
                   ELSE IF s[i] = 47 THEN 92 ELSE s[i]]
    IN  IF Len(low) > 0 /\ low[Len(low)] = 92
        THEN SubSeq(low, 1, Len(low) - 1) ELSE low

\* The name of record i without its terminator.
RecordName(i) == SubSeq(table[i].lpRemoteName, 1, Len(table[i].lpRemoteName) - 1)

\* The records the enumeration has handed to the program so far.
RecordsReturned == 1..pos

\* C10: at every point of the scan the found flag is true exactly when one
\* of the records returned so far has a non-null name equal to the target up
\* to the case of its letters; every compared name is printed in lowercase;
\* and a table whose names equal the target only after separator or
\* trailing-separator canonicalisation, or are drive-letter names against a
\* UNC target, never sets the flag.
C10_CaseInsensitiveEqualityOnly ==
    HasTarget =>
        /\ found <=> \E i \in RecordsReturned : RecordMatches(i)
        /\ \A k \in DOMAIN tested :
               \A j \in DOMAIN tested[k] : tested[k][j] \notin 65..90
        /\ (\A i \in DOMAIN table :
               /\ table[i].lpRemoteName # NULL
               /\ \/ /\ Canonical(RecordName(i)) = Canonical(path)
                     /\ ~CaseInsensitiveEqual(RecordName(i), path)
                  \/ /\ RecordName(i) = DriveLetter
                     /\ path # DriveLetter)
             => ~found /\ check_result # "true"

\* A finished clean scan of two records, a trailing-separator spelling and
\* a forward-slash spelling of the target, that found nothing.
C10_Witness ==
    /\ HasTarget
    /\ path = UncUpper
    /\ Len(table) = 2
    /\ table[1].lpRemoteName = Append(UncTrailing, 0)
    /\ table[2].lpRemoteName = Append(UncSlashes, 0)
    /\ pos = 2
    /\ Len(tested) = 2
    /\ ~EnumerationFailed
    /\ check_result = "false"

\* The records returned so far whose remote name is not null.
NamedRecordsReturned == {i \in RecordsReturned : table[i].lpRemoteName # NULL}

\* The lowercase form of a name, letter by letter.
Lowered(s) == [i \in 1..Len(s) |-> IF s[i] \in 65..90 THEN s[i] + 32 ELSE s[i]]

\* The lowercase names of the non-null records among the first n of the table,
\* in the table's order.
RECURSIVE LoweredNames(_)
LoweredNames(n) ==
    IF n = 0 THEN << >>
    ELSE IF table[n].lpRemoteName = NULL THEN LoweredNames(n - 1)
    ELSE Append(LoweredNames(n - 1), Lowered(RecordName(n)))

\* C11: a record with a null remote name is never compared (the compared
\* names are never more than the non-null records returned), never counts as
\* a match (found needs a non-null record), and does not stop the scan:
\* while nothing has matched, every non-null record returned so far, on
\* this page or an earlier one, has been compared, in order; and a matching
\* record that follows a null record sets found.
C11_NullRecordSkipped ==
    HasTarget =>
        /\ Len(tested) <= Cardinality(NamedRecordsReturned)
        /\ found => NamedRecordsReturned # {}
        /\ ~found => tested = LoweredNames(pos)
        /\ (\E i, j \in RecordsReturned :
               /\ i < j
               /\ table[i].lpRemoteName = NULL
               /\ RecordMatches(j)) => found

\* One page held a null record followed by the target: the null record was
\* passed over, the second record compared and found.
C11_Witness ==
    /\ HasTarget
    /\ Len(table) = 2
    /\ table[1].lpRemoteName = NULL
    /\ RecordMatches(2)
    /\ pos = 2
    /\ Cardinality({i \in CallsOf("WNetEnumResourceW") : calls[i].status = 0}) = 1
    /\ Len(tested) = 1
    /\ found

\* C12: every WNetAddConnection2W call of the run has a request, and every
\* request carries the three flags interactive, prompt and temporary
\* together, no password, a null local name, and as remote name and user
\* name the terminated wide strings of the run's path and username
\* arguments, unchanged.
C12_ConnectRequestShape ==
    /\ Len(connect_requests) = Cardinality(CallsOf("WNetAddConnection2W"))
    /\ \A k \in DOMAIN connect_requests :
        /\ connect_requests[k].flags =
               {"CONNECT_INTERACTIVE", "CONNECT_PROMPT", "CONNECT_TEMPORARY"}
        /\ connect_requests[k].password = "None"
        /\ connect_requests[k].lpLocalName = << >>
        /\ connect_requests[k].lpRemoteName = args[2] \o <<0>>
        /\ connect_requests[k].username = args[3] \o <<0>>

\* A connect call made for an upper-case path and the user name Bo.
C12_Witness ==
    /\ Called("WNetAddConnection2W")
    /\ Len(connect_requests) = 1
    /\ args[2] = UncUpper
    /\ args[3] = <<66, 111>>
    /\ connect_requests[1].lpRemoteName = <<92, 92, 83, 92, 68, 0>>

\* C13: main calls read_line at most once, only after inner_main has
\* returned a non-zero exit code and before the process ends; a process that
\* is about to end or has ended has made that one call exactly when the exit
\* code is not 0, so a run that ends with status 0 has read nothing and a run
\* that ends with any other status (the exit code, or the panic status when
\* the read_line call itself fails) has made the call.
C13_PauseOnFailureOnly ==
    /\ stdin_reads \in {0, 1}
    /\ stdin_reads = 1 => (Returned /\ exit_code # 0 /\ pc \in {"exit", "exited"})
    /\ pc \in {"exit", "exited"} =>
           stdin_reads = (IF exit_code # 0 THEN 1 ELSE 0)
    /\ process_status # -1 =>
        /\ pc = "exited"
        /\ process_status = 0 => stdin_reads = 0
        /\ process_status # 0 => stdin_reads = 1
        /\ process_status \in {exit_code, 101}

\* A run whose launch failed has paused once and ended with status 1.
C13_Witness ==
    /\ pc = "exited"
    /\ process_status = 1
    /\ stdin_reads = 1
    /\ \E l \in CallsOf("ShellExecuteW") : calls[l].status = 32

\* The page fetches that ended with no-more-items.
EndOfTableFetches == {i \in CallsOf("WNetEnumResourceW") : calls[i].status = 259}

\* C14: the run leaves the fetch loop for the closing WNetCloseEnum only
\* right after a fetch that returned no-more-items; a match does not end the
\* loop (with found set and no such fetch yet the run is still in the loop,
\* unless a fetch error has ended the check with false); and a check that
\* returned true did so after a successful fetch and a later, last fetch
\* that returned no-more-items.
C14_OnlyNoMoreItemsEndsLoop ==
    /\ pc = "close_enum" =>
           /\ calls[Len(calls)].op = "WNetEnumResourceW"
           /\ calls[Len(calls)].status = 259
    /\ (HasTarget /\ found /\ EndOfTableFetches = {}) =>
           \/ pc = "enum_loop"
           \/ check_result = "false" /\ EnumerationFailed
    /\ check_result = "true" =>
           /\ found
           /\ Cardinality(EndOfTableFetches) = 1
           /\ \A e \in EndOfTableFetches :
               /\ \E m \in CallsOf("WNetEnumResourceW") : m < e /\ calls[m].status = 0
               /\ \A m \in CallsOf("WNetEnumResourceW") : m <= e
               /\ calls[e + 1].op = "WNetCloseEnum"

\* The target was found on a page and the run is still in the fetch loop.
C14_Witness ==
    /\ HasTarget
    /\ found
    /\ pc = "enum_loop"
    /\ pos < Len(table)
    /\ EndOfTableFetches = {}

\* Some record the enumeration has returned names the target.
MatchSeen == \E i \in RecordsReturned : RecordMatches(i)

\* What C15 says of every state.
C15_State ==
    HasTarget =>
        /\ (check_result # "none" /\ ~EnumerationFailed) =>
               /\ pos = Len(table)
               /\ check_result = "true" <=> MatchSeen
               /\ check_result = "true" <=> TableHasMatch
        /\ ((pc = "launch" \/ Called("ShellExecuteW"))
              /\ ~Called("WNetAddConnection2W")) => MatchSeen

\* C15: when WNetOpenEnumW succeeds and every fetch up to no-more-items
\* succeeds, is_connection_already_open returns true exactly when a
\* non-null record of a fetched page equals the target up to case; a run
\* reaches the launch without a connect call only if such a record was
\* returned; and the found flag, once true, is never false again.
C15_TrueIffMatchSeen == [](C15_State) /\ [][found => found']_vars

\* The first of two pages held the target, the second another name, and
\* the check returned true.
C15_Witness ==
    /\ HasTarget
    /\ Len(table) = 2
    /\ RecordMatches(1)
    /\ table[2].lpRemoteName # NULL
    /\ ~RecordMatches(2)
    /\ Cardinality({i \in CallsOf("WNetEnumResourceW") : calls[i].status = 0}) >= 2
    /\ Len(tested) = 2
    /\ check_result = "true"

\* The state of the reconciler a position of the run belongs to:
\* 0 Start, 1 Checking, 2 Connecting, 3 Launching, 4 Done or Failed.
Phase(at) ==
    CASE at = "inner_main" -> 0
      [] at \in {"open_enum", "enum_loop", "close_enum"} -> 1
      [] at = "connect" -> 2
      [] at = "launch" -> 3
      [] at \in {"main", "exit", "exited"} -> 4

\* The place of an OS call in the order open, fetch, close, connect, launch.
CallRank(op) ==
    CASE op = "WNetOpenEnumW" -> 1
      [] op = "WNetEnumResourceW" -> 2
      [] op = "WNetCloseEnum" -> 3
      [] op = "WNetAddConnection2W" -> 4
      [] op = "ShellExecuteW" -> 5

\* What C16 says of every state.
C16_State ==
    /\ enum_handle = "open" <=>
           (CallSucceeded("WNetOpenEnumW") /\ ~Called("WNetCloseEnum"))
    /\ Phase(pc) >= 2 => enum_handle # "open"
    /\ \A c \in CallsOf("WNetAddConnection2W") \cup CallsOf("ShellExecuteW") :
           (\E o \in CallsOf("WNetOpenEnumW") : calls[o].status = 0)
               => \E k \in CallsOf("WNetCloseEnum") : k < c
    /\ \A i, j \in DOMAIN calls :
           i < j =>
               \/ CallRank(calls[i].op) < CallRank(calls[j].op)
               \/ calls[i].op = "WNetEnumResourceW" /\ calls[j].op = "WNetEnumResourceW"
    /\ Phase(pc) = 0 => calls = << >>
    /\ Phase(pc) <= 1 => ~Called("WNetAddConnection2W")
    /\ Phase(pc) <= 2 => ~Called("ShellExecuteW")

\* What C16 says of every step: the run stays in Checking or moves to a
\* later state, and Launching is entered from Checking or Connecting only.
C16_Step ==
    /\ Phase(pc') >= Phase(pc)
    /\ Phase(pc') = Phase(pc) => Phase(pc) \in {1, 4}
    /\ (Phase(pc) = 0 /\ Phase(pc') # 0) => Phase(pc') \in {1, 4}
    /\ (Phase(pc) = 1 /\ Phase(pc') # 1) => Phase(pc') \in {2, 3}
    /\ (Phase(pc) = 3 /\ Phase(pc') # 3) => Phase(pc') = 4

\* C16: the enumeration handle the program opened has been handed to
\* WNetCloseEnum before any connect or launch call and before the run ends,
\* the OS calls come in the order open, fetches, close, connect, launch, and
\* the run moves Start, Checking, Connecting (optional), Launching, Done or
\* Failed without ever stepping back.
C16_PhasesInOrder == [](C16_State) /\ [][C16_Step]_vars

\* A finished run that opened and closed the handle, connected and launched.
C16_Witness ==
    /\ pc = "exited"
    /\ enum_handle = "closed"
    /\ CallSucceeded("WNetOpenEnumW")
    /\ Called("WNetCloseEnum")
    /\ CallSucceeded("WNetAddConnection2W")
    /\ Called("ShellExecuteW")
    /\ process_status = 0

\* The status of the last OS call made.
LastStatus(log) == log[Len(log)].status

\* What C17 says of every step taken in the fetch loop: a page, with a match
\* or without, with records or empty, keeps the run in the loop, and the run
\* leaves the loop only on a fetch that returned no-more-items (to the
\* closing call) or an error (out of the check, with the handle closed).
C17_LoopStep ==
    pc = "enum_loop" =>
        /\ \E a \in DOMAIN calls' :
               /\ a = Len(calls) + 1
               /\ calls'[a].op = "WNetEnumResourceW"
               /\ pc' = "enum_loop" <=> calls'[a].status = 0
               /\ pc' = "close_enum" <=> calls'[a].status = 259
        /\ pc' = "enum_loop" => (pos' >= pos /\ empty_pages' >= empty_pages)

\* C17: when every OS call returns and the OS ends the enumeration (here:
\* after the table's records and at most MaxEmptyPages empty pages it answers
\* no-more-items or an error), inner_main eventually returns, to Done (exit
\* code 0) or Failed (exit code 1); and the fetch loop ends on a
\* no-more-items or error answer and on nothing else.
C17_RunEnds == <>(Phase(pc) = 4 /\ exit_code \in {0, 1}) /\ [][C17_LoopStep]_vars

\* The run is still in the fetch loop after a match and an empty page.
C17_Witness ==
    /\ HasTarget
    /\ pc = "enum_loop"
    /\ found
    /\ empty_pages >= 1
    /\ pos = Len(table)
    /\ Cardinality(CallsOf("WNetEnumResourceW")) >= 3
====
